---- MODULE Spec2Model ----
(***************************************************************************)
(* EditableCommit (client/src/components/EditableCommit.js): a React       *)
(* component that shows a commit (ID, author, date) and lets the user edit *)
(* its message.  The model keeps the commit objects in a heap, so that     *)
(* "the same object" and "an equal object" are different things, mounts    *)
(* one component instance per editor over a heap reference, and records    *)
(* what the parent's onChange callback observes when it is called.         *)
(*                                                                         *)
(* A JavaScript object is a function from the names of the properties it   *)
(* has to their values: a property that is absent (undefined) is not in    *)
(* the function's DOMAIN.  Property values are strings.                    *)
(***************************************************************************)
EXTENDS Integers, Sequences, FiniteSets, TLC

VARIABLES heap, props, calls, events, view

vars == <<heap, props, calls, events, view>>

----------------------------------------------------------------------------
(* Bounds of the model *)

NumCommits == 2
NumEditors == 2
MaxEdits == 2

Refs == 1..NumCommits
Editors == 1..NumEditors

----------------------------------------------------------------------------
(* Values *)

UNKNOWN == "<unknown>"

Fields == {"node", "author", "author_email", "date", "message"}

NodeValues == {"", "abc123", "<unknown>"}
AuthorValues == {"", "Ann", "<unknown>"}
EmailValues == {"", "ann@example.com"}
DateValues == {"", "2014-05-01", "<unknown>"}
MessageValues == {"", "initial"}

FieldValues(f) ==
    CASE f = "node" -> NodeValues
      [] f = "author" -> AuthorValues
      [] f = "author_email" -> EmailValues
      [] f = "date" -> DateValues
      [] f = "message" -> MessageValues

\* Every commit record with any subset of its fields absent.
Commits ==
    UNION { { c \in [D -> UNION {FieldValues(f) : f \in D}] :
                \A f \in D : c[f] \in FieldValues(f) } : D \in SUBSET Fields }

\* The values the user types into the text area.
EditValues == {"", "fix bug"}

----------------------------------------------------------------------------
(* JavaScript semantics used by the component *)

Has(o, f) == f \in DOMAIN o

\* !o[f] is true of undefined and of the empty string.
Truthy(o, f) == Has(o, f) /\ o[f] # ""

\* Array.prototype.join turns an undefined element into the empty string.
ToJoinString(o, f) == IF Has(o, f) THEN o[f] ELSE ""

RECURSIVE join(_, _)
join(array, sep) ==
    IF array = <<>> THEN ""
    ELSE IF Len(array) = 1 THEN array[1]
    ELSE array[1] \o sep \o join(Tail(array), sep)

\* o[f] = v on an object: the property is created when absent.
SetField(o, f, v) == [x \in DOMAIN o \cup {f} |-> IF x = f THEN v ELSE o[x]]

\* A JSX child or attribute {o[f]}: nothing when the property is undefined.
Child(key, o, f) == IF Has(o, f) THEN [x \in {key} |-> o[f]] ELSE <<>>

----------------------------------------------------------------------------
(* render *)

\* Variant: the e-mail is pushed without its angle brackets.
authorNoBrackets(commit) ==
    LET array0 == <<ToJoinString(commit, "author")>>
        array1 == IF Truthy(commit, "author_email")
                  THEN Append(array0, commit["author_email"])
                  ELSE array0
        joined == join(array1, " ")
    IN IF joined = "" THEN UNKNOWN ELSE joined

\* Variant: the placeholder test looks at commit.author, not at the joined text.
authorFallbackOnName(commit) ==
    LET array0 == <<ToJoinString(commit, "author")>>
        array1 == IF Truthy(commit, "author_email")
                  THEN Append(array0, "<" \o commit["author_email"] \o ">")
                  ELSE array0
        joined == join(array1, " ")
    IN IF ~Truthy(commit, "author") THEN UNKNOWN ELSE joined

author(commit) ==
    LET array0 == <<ToJoinString(commit, "author")>>
        array1 == IF Truthy(commit, "author_email")
                  THEN Append(array0, "<" \o commit["author_email"] \o ">")
                  ELSE array0
        joined == join(array1, " ")
    IN IF joined = "" THEN UNKNOWN ELSE joined

\* Variant: the placeholder replaces an absent date only, not an empty one.
dateNoFallback(commit) ==
    IF Has(commit, "date") THEN commit["date"] ELSE UNKNOWN

date(commit) ==
    IF Truthy(commit, "date") THEN commit["date"] ELSE UNKNOWN

\* Variant: the ID falls back to the placeholder the way the date does.
renderIdFallback(commit) ==
    [ID |-> IF Truthy(commit, "node") THEN commit["node"] ELSE UNKNOWN,
     Author |-> author(commit), Date |-> date(commit)]
    @@ Child("Message", commit, "message")

\* The form: what each form group displays, by its label.
render(commit) ==
    Child("ID", commit, "node")
    @@ [Author |-> author(commit), Date |-> date(commit)]
    @@ Child("Message", commit, "message")

NotRendered == [rendered |-> FALSE]

\* Variant: render dereferences every field (commit.message.length and the
\* like), which throws on a commit that lacks one.
RenderStrict(e) ==
    /\ Fields \subseteq DOMAIN heap[props[e]]
    /\ view' = [view EXCEPT ![e] =
                  [rendered |-> TRUE,
                   commit |-> heap[props[e]],
                   out |-> render(heap[props[e]])]]
    /\ UNCHANGED <<heap, props, calls, events>>

\* Variant: the text area shows the component's own buffer, the last value
\* typed into this instance, when there is one.
RenderBuffered(e) ==
    LET own == {i \in 1..Len(events) : events[i].editor = e}
        last == CHOOSE i \in own : \A j \in own : j <= i
        commit == heap[props[e]]
        shown == IF own = {} THEN commit
                 ELSE SetField(commit, "message", events[last].value)
    IN /\ view' = [view EXCEPT ![e] =
                     [rendered |-> TRUE, commit |-> commit, out |-> render(shown)]]
       /\ UNCHANGED <<heap, props, calls, events>>

Render(e) ==
    /\ view' = [view EXCEPT ![e] =
                  [rendered |-> TRUE,
                   commit |-> heap[props[e]],
                   out |-> render(heap[props[e]])]]
    /\ UNCHANGED <<heap, props, calls, events>>

----------------------------------------------------------------------------
(* handleChangeMessage *)

\* The parent's callback: it records who called, the argument, and the heap
\* as it is while the callback runs.
onChange(h, commit, e) ==
    Append(calls, [editor |-> e, arg |-> commit, heap |-> h])

\* Variant: an empty message is rejected.
handleChangeMessageNonEmpty(e, value) ==
    LET message == value
        commit == props[e]
        heap1 == [heap EXCEPT ![commit] = SetField(@, "message", message)]
    IN IF message = ""
       THEN UNCHANGED <<heap, calls>>
       ELSE /\ heap' = heap1
            /\ calls' = onChange(heap1, commit, e)

\* Variant: the commit is rebuilt from the form's one editable field.
handleChangeMessageRebuild(e, value) ==
    LET message == value
        commit == props[e]
        heap1 == [heap EXCEPT ![commit] = [x \in {"message"} |-> message]]
    IN /\ heap' = heap1
       /\ calls' = onChange(heap1, commit, e)

\* Variant: onChange is called before the assignment.
handleChangeMessageCallFirst(e, value) ==
    LET message == value
        commit == props[e]
        heap1 == [heap EXCEPT ![commit] = SetField(@, "message", message)]
    IN /\ calls' = onChange(heap, commit, e)
       /\ heap' = heap1

\* Variant: an edit is dropped when the commit's message is no longer the one
\* this instance rendered (another editor wrote it in between).
handleChangeMessageGuarded(e, value) ==
    LET message == value
        commit == props[e]
        heap1 == [heap EXCEPT ![commit] = SetField(@, "message", message)]
        stale == /\ view[e].rendered
                 /\ Child("m", view[e].commit, "message")
                        # Child("m", heap[commit], "message")
    IN IF stale
       THEN UNCHANGED <<heap, calls>>
       ELSE /\ heap' = heap1
            /\ calls' = onChange(heap1, commit, e)

handleChangeMessage(e, value) ==
    LET message == value
        commit == props[e]
        heap1 == [heap EXCEPT ![commit] = SetField(@, "message", message)]
    IN /\ heap' = heap1
       /\ calls' = onChange(heap1, commit, e)

\* The text area's change event, dispatched to the handler.
Edit(e, value) ==
    /\ Len(events) < MaxEdits
    /\ events' = Append(events, [editor |-> e, value |-> value])
    /\ handleChangeMessage(e, value)
    /\ UNCHANGED <<props, view>>

----------------------------------------------------------------------------
(* Specifications *)

\* Commits the editors are mounted over in Spec.
MountedCommits ==
    { [node |-> "abc123", author |-> "Ann", author_email |-> "ann@example.com",
       date |-> "2014-05-01", message |-> ""],
      [node |-> "abc123", author_email |-> "ann@example.com", date |-> ""] }

Mounted ==
    /\ props \in [Editors -> Refs]
    /\ calls = <<>>
    /\ events = <<>>
    /\ view = [e \in Editors |-> NotRendered]

Init ==
    /\ heap \in [Refs -> MountedCommits]
    /\ Mounted

Next ==
    \/ \E e \in Editors : Render(e)
    \/ \E e \in Editors, value \in EditValues : Edit(e, value)

Spec == Init /\ [][Next]_vars

\* render as a function of the commit: every commit record, rendered.
InitRender ==
    /\ \E c \in Commits : heap = [r \in Refs |-> c]
    /\ Mounted

NextRender == \E e \in Editors : Render(e)

SpecRender == InitRender /\ [][NextRender]_vars

----------------------------------------------------------------------------
(* Properties of handleChangeMessage, under Spec *)

\* The edit events so far that went to an editor mounted over commit object r.
EditsOn(r, evs) == {i \in 1..Len(evs) : props[evs[i].editor] = r}

\* The value of the last of them.
LastValueOn(r, evs) ==
    LET on == EditsOn(r, evs)
    IN evs[CHOOSE i \in on : \A j \in on : j <= i].value

\* The fields of an object other than message, with their values.
Frame(o) == [f \in DOMAIN o \ {"message"} |-> o[f]]

\* C1: every edit event, whatever its value (the empty string included), causes
\* exactly one onChange call: after n edits there are n calls, and the i-th
\* call comes from the i-th event's editor and receives a commit whose message
\* is the i-th entered value.
C1_OneCallPerEdit ==
    /\ Len(calls) = Len(events)
    /\ \A i \in 1..Len(events) :
         /\ i <= Len(calls)
         /\ calls[i].editor = events[i].editor
         /\ Has(calls[i].heap[calls[i].arg], "message")
         /\ calls[i].heap[calls[i].arg]["message"] = events[i].value

\* C1's case: the same editor received the empty string twice in a row, and
\* both events reached the callback.
C1_Witness ==
    /\ Len(events) = 2
    /\ Len(calls) = 2
    /\ events[1].value = ""
    /\ events[2] = events[1]

\* C2: no step changes, adds or removes the node, author, author_email or date
\* of any commit, and a step that is not an edit event (a render) changes no
\* commit at all and calls no callback.
C2_WritesOnlyMessage ==
    [][ /\ \A r \in Refs : Frame(heap'[r]) = Frame(heap[r])
        /\ (events' = events => heap' = heap /\ calls' = calls) ]_vars

\* C2's case: an editor over a commit that has its other fields was rendered,
\* edited and its message is the edited one.
C2_Witness ==
    \E e \in Editors :
        /\ view[e].rendered
        /\ \E i \in 1..Len(events) : events[i].editor = e
        /\ {"node", "author", "date", "message"} \subseteq DOMAIN heap[props[e]]
        /\ heap[props[e]]["message"] = "fix bug"
        /\ view[e].commit["message"] = ""

\* C3: every onChange call receives the very object the calling editor was
\* mounted over (the heap has no other object than the parent's), and while the
\* callback runs that object already carries the entered message.
C3_SameObjectAlreadyWritten ==
    \A i \in 1..Len(calls) :
        LET k == calls[i]
        IN /\ k.arg = props[k.editor]
           /\ DOMAIN k.heap = Refs
           /\ i <= Len(events)
           /\ Has(k.heap[props[k.editor]], "message")
           /\ k.heap[props[k.editor]]["message"] = events[i].value

\* C3's case: two calls on one object with different messages, while another
\* object holds fields equal to what the object had before the edits.
C3_Witness ==
    /\ Len(calls) = 2
    /\ calls[1].arg = calls[2].arg
    /\ calls[1].heap[calls[1].arg]["message"] = "fix bug"
    /\ calls[2].heap[calls[2].arg]["message"] = ""
    /\ \E r \in Refs :
         /\ r # calls[1].arg
         /\ Frame(heap[r]) = Frame(heap[calls[1].arg])

\* C8: the component has no state of its own: two renders of commits with
\* equal fields display the same values whatever came before, the text area's
\* value at a render is the commit's message (absent when the commit has none),
\* and a commit's message is the value of the last edit event made on it.
C8_Stateless ==
    /\ \A e1, e2 \in Editors :
         (view[e1].rendered /\ view[e2].rendered
            /\ view[e1].commit = view[e2].commit)
         => view[e1].out = view[e2].out
    /\ \A e \in Editors :
         view[e].rendered =>
           Child("Message", view[e].out, "Message")
             = Child("Message", view[e].commit, "message")
    /\ \A r \in Refs :
         EditsOn(r, events) # {} =>
           /\ Has(heap[r], "message")
           /\ heap[r]["message"] = LastValueOn(r, events)

\* C8's case: two editors with different edit histories (one typed, the other
\* did not) rendered commits with equal fields, after the edits.
C8_Witness ==
    \E e1, e2 \in Editors :
        /\ e1 # e2
        /\ props[e1] # props[e2]
        /\ Len(events) = 2
        /\ \A i \in 1..2 : events[i].editor = e1
        /\ events[1].value # events[2].value
        /\ view[e1].rendered /\ view[e2].rendered
        /\ view[e1].commit = view[e2].commit
        /\ view[e1].commit = heap[props[e1]]
        /\ view[e1].out["Message"] = ""

\* C9: for two editors mounted over the same commit object: a render of either
\* shows the value of the last edit made on the object through any of them, and
\* every edit through either is written and reported by one more onChange call,
\* so the object's message is the value of the last edit event processed.
C9_SharedCommit ==
    [][ \A e1, e2 \in Editors :
          (e1 # e2 /\ props[e1] = props[e2]) =>
            /\ (view'[e1] # view[e1] /\ EditsOn(props[e1], events) # {})
                 => /\ Has(view'[e1].out, "Message")
                    /\ view'[e1].out["Message"] = LastValueOn(props[e1], events)
            /\ (events' # events /\ events'[Len(events')].editor = e1)
                 => /\ Len(calls') = Len(calls) + 1
                    /\ calls'[Len(calls')].arg = props[e2]
                    /\ Has(heap'[props[e2]], "message")
                    /\ heap'[props[e2]]["message"] = events'[Len(events')].value
      ]_vars

\* C9's case: one editor typed, the other typed something else over the same
\* object, and the first editor's next render shows the second one's text.
C9_Witness ==
    \E e1, e2 \in Editors :
        /\ e1 # e2
        /\ props[e1] = props[e2]
        /\ Len(events) = 2
        /\ events[1] = [editor |-> e1, value |-> "fix bug"]
        /\ events[2] = [editor |-> e2, value |-> ""]
        /\ heap[props[e1]]["message"] = ""
        /\ view[e1].rendered
        /\ Has(view[e1].out, "Message")
        /\ view[e1].out["Message"] = ""

----------------------------------------------------------------------------
(* Properties of render, under SpecRender *)

\* The commit an editor is mounted over.
CommitOf(e) == heap[props[e]]

\* C4: for a commit with a non-empty author, the displayed author is the author
\* itself when author_email is empty or absent, and the author, a space and
\* the e-mail in angle brackets when author_email is non-empty.
C4_AuthorDisplayed ==
    \A e \in Editors :
        (view[e].rendered /\ Has(CommitOf(e), "author")
           /\ CommitOf(e)["author"] # "")
        => IF Has(CommitOf(e), "author_email") /\ CommitOf(e)["author_email"] # ""
           THEN view[e].out["Author"]
                  = CommitOf(e)["author"] \o " <" \o CommitOf(e)["author_email"] \o ">"
           ELSE view[e].out["Author"] = CommitOf(e)["author"]

\* C4's case: an author with an e-mail was rendered.
C4_Witness ==
    \E e \in Editors :
        /\ view[e].rendered
        /\ Has(CommitOf(e), "author") /\ CommitOf(e)["author"] = "Ann"
        /\ Has(CommitOf(e), "author_email")
        /\ view[e].out["Author"] = "Ann <ann@example.com>"

\* C5: render can always be performed, whatever subset of the commit's fields
\* is absent or empty; the author shows the placeholder when author and
\* author_email are both empty or absent, the date shows it when date is empty
\* or absent.
C5_RenderNeverFails ==
    \A e \in Editors :
        /\ ENABLED Render(e)
        /\ view[e].rendered =>
             /\ {"Author", "Date"} \subseteq DOMAIN view[e].out
             /\ (\A f \in {"author", "author_email"} :
                    ~Has(CommitOf(e), f) \/ CommitOf(e)[f] = "")
                => view[e].out["Author"] = UNKNOWN
             /\ (~Has(CommitOf(e), "date") \/ CommitOf(e)["date"] = "")
                => view[e].out["Date"] = UNKNOWN

\* C5's case: a commit with no field at all was rendered.
C5_Witness ==
    \E e \in Editors :
        /\ view[e].rendered
        /\ DOMAIN CommitOf(e) = {}
        /\ view[e].out = [Author |-> UNKNOWN, Date |-> UNKNOWN]

\* C6: the displayed date is the placeholder when date is empty, and date
\* itself otherwise, whatever the other fields are.
C6_DateDisplayed ==
    \A e \in Editors :
        (view[e].rendered /\ Has(CommitOf(e), "date")) =>
            IF CommitOf(e)["date"] = ""
            THEN view[e].out["Date"] = UNKNOWN
            ELSE view[e].out["Date"] = CommitOf(e)["date"]

\* C6's case: an empty date was rendered, in a commit that has other fields.
C6_Witness ==
    \E e \in Editors :
        /\ view[e].rendered
        /\ Has(CommitOf(e), "date") /\ CommitOf(e)["date"] = ""
        /\ Has(CommitOf(e), "author") /\ CommitOf(e)["author"] = "Ann"
        /\ view[e].out["Date"] = UNKNOWN

\* C7: the ID shown is commit.node as it is, whatever the other fields are; an
\* empty node shows as empty and an absent one shows nothing: the placeholder
\* never stands in for it.
C7_IdDisplayed ==
    \A e \in Editors :
        view[e].rendered =>
            IF Has(CommitOf(e), "node")
            THEN Has(view[e].out, "ID") /\ view[e].out["ID"] = CommitOf(e)["node"]
            ELSE ~Has(view[e].out, "ID")

\* C7's case: an empty node was rendered next to an author and a date that
\* show the placeholder.
C7_Witness ==
    \E e \in Editors :
        /\ view[e].rendered
        /\ Has(CommitOf(e), "node") /\ CommitOf(e)["node"] = ""
        /\ view[e].out["ID"] = ""
        /\ view[e].out["Author"] = UNKNOWN
        /\ view[e].out["Date"] = UNKNOWN

\* C10: the author shows the placeholder when author and author_email are both
\* empty or absent, and otherwise the text built from the fields; with an empty
\* or absent author and an e-mail that text is a space followed by the e-mail
\* in angle brackets, which is neither the placeholder nor the bare bracketed
\* e-mail.
C10_AuthorPlaceholder ==
    \A e \in Editors :
        view[e].rendered =>
            LET c == CommitOf(e)
                name == IF Has(c, "author") THEN c["author"] ELSE ""
                email == IF Has(c, "author_email") THEN c["author_email"] ELSE ""
                shown == view[e].out["Author"]
            IN /\ (name = "" /\ email = "") => shown = UNKNOWN
               /\ (name # "" /\ email = "") => shown = name
               /\ email # "" => shown = name \o " <" \o email \o ">"
               /\ (name = "" /\ email # "") =>
                    /\ shown # UNKNOWN
                    /\ shown # "<" \o email \o ">"
                    /\ shown = " <" \o email \o ">"

\* C10's case: a commit without author, with an e-mail, was rendered.
C10_Witness ==
    \E e \in Editors :
        /\ view[e].rendered
        /\ ~Has(CommitOf(e), "author")
        /\ Has(CommitOf(e), "author_email")
        /\ view[e].out["Author"] = " <ann@example.com>"

====
